---- MODULE Spec2Model ----
(***************************************************************************)
(* Model of the headless Connect4 engine (connect4/core/game_core.py):     *)
(* Connect4Config, MoveResult and Connect4Game with reset, valid_moves,    *)
(* drop_piece, _check_win_from and _count_dir; of the two hosts that drive  *)
(* it (connect4/ui/tkinter_ui.py, connect4/ui/ipywidgets_ui.py); and of    *)
(* the agents they call (connect4/ai/ai_base.py, connect4/ai/random_ai.py).*)
(***************************************************************************)
EXTENDS Integers, Sequences, FiniteSets

\* ------------------------------------------------------------------ bounds
\* Board shapes explored: every rows x cols with rows <= MaxRows,
\* cols <= MaxCols and rows * cols <= MaxCells.
MaxRows == 4
MaxCols == 4
MaxCells == 8

\* Host-driven games (PlaySpec) are followed for at most MaxPieces placements.
MaxPieces == 12

\* ------------------------------------------------------- program constants
EMPTY == 0
P1 == 1
P2 == 2

\* The length of a winning line (_check_win_from: count >= 4).
WinLength == 4

\* Connect4Config's default dimensions.
DefaultRows == 6
DefaultCols == 7

\* Optional[T]: None, or a value.
None == {}
Some(x) == {x}

VARIABLES
    config,          \* Connect4Game.config: [rows, cols]
    board,           \* Connect4Game.board: board[r][c], row 0 is the top
    current_player,  \* Connect4Game.current_player
    last_move,       \* Connect4Game.last_move: None or Some(<<row, col>>)
    winner,          \* Connect4Game.winner: 0, P1 or P2
    is_draw,         \* Connect4Game.is_draw
    call,            \* the last call made on the engine and its argument
    result,          \* the MoveResult the last drop_piece returned
    moves,           \* the list the last valid_moves() returned
    ui,              \* the host driving the engine: "none", "tkinter" or "ipywidgets"
    p1_ai,           \* host.p1_ai: None (human) or Some(agent class)
    p2_ai,           \* host.p2_ai
    turn_token,      \* host._turn_token
    ai_job_id,       \* Connect4TkApp._ai_job_id: None or Some(token of the job)
    after,           \* the automated turns waiting to run (tokens they carry)
    event,           \* the last host handler or agent method that ran
    hooks,           \* the lifecycle notifications that handler delivered, in order
    chosen           \* the choose_move call that handler made: arguments and outcome

host == <<ui, p1_ai, p2_ai, turn_token, ai_job_id, after, event, hooks, chosen>>

vars == <<config, board, current_player, last_move, winner, is_draw, call, result, moves,
          ui, p1_ai, p2_ai, turn_token, ai_job_id, after, event, hooks, chosen>>

game == <<board, current_player, last_move, winner, is_draw>>

\* ---------------------------------------------------------------- inputs
\* Mutant: only the number of rows is validated.
ValidConfigRowsOnly(rows, cols) == ~(rows <= 0)

\* Connect4Config.__post_init__ accepts exactly the positive dimensions.
ValidConfig(rows, cols) == ~(rows <= 0 \/ cols <= 0)

Configs ==
    {cfg \in [rows : 0..MaxRows, cols : 0..MaxCols] :
        ValidConfig(cfg.rows, cfg.cols) /\ cfg.rows * cfg.cols <= MaxCells}

\* Host-driven games are played on every shape up to the smallest board on
\* which a line fits in each of the four directions.
PlayConfigs ==
    {cfg \in [rows : 0..WinLength, cols : 0..WinLength] :
        ValidConfig(cfg.rows, cfg.cols)}

\* Column arguments tried by drop_piece: one below and one above the range.
ColArgs(ncols) == -1..ncols

\* Starting players handed to reset.
FirstPlayers == {P1, P2}

\* ------------------------------------------------------------ pure helpers
\* Python list indexing: a negative index counts from the end.
Idx(i, n) == IF i < 0 THEN i + n ELSE i

Cell(b, r, c, nrows, ncols) == b[Idx(r, nrows)][Idx(c, ncols)]

EmptyBoard(nrows, ncols) == [r \in 0..(nrows - 1) |-> [c \in 0..(ncols - 1) |-> EMPTY]]

\* MoveResult(placed=False): the dataclass defaults.
NotPlaced ==
    [placed |-> FALSE, row |-> None, col |-> None, winner |-> 0, is_draw |-> FALSE]

\* Mutant: the result is built before the terminal check has run.
MakeResultBeforeCheck(r, col, w, d) ==
    [placed |-> TRUE, row |-> Some(r), col |-> Some(col), winner |-> 0, is_draw |-> FALSE]

MakeResult(r, col, w, d) ==
    [placed |-> TRUE, row |-> Some(r), col |-> Some(col), winner |-> w, is_draw |-> d]

\* Mutant: the bottom row is tested instead of the top row.
ValidMovesBottomRow(b, ncols) ==
    SelectSeq([i \in 1..ncols |-> i - 1],
              LAMBDA c : b[Cardinality(DOMAIN b) - 1][c] = EMPTY)

\* valid_moves(): the columns whose top cell is empty, ascending.
ValidMoves(b, ncols) ==
    SelectSeq([i \in 1..ncols |-> i - 1], LAMBDA c : b[0][c] = EMPTY)

\* _count_dir: consecutive cells of player starting at (rr, cc), stepping (dr, dc).
RECURSIVE CountDir(_, _, _, _, _, _, _, _)
CountDir(b, rr, cc, dr, dc, player, nrows, ncols) ==
    IF 0 <= rr /\ rr < nrows /\ 0 <= cc /\ cc < ncols /\ b[rr][cc] = player
    THEN 1 + CountDir(b, rr + dr, cc + dc, dr, dc, player, nrows, ncols)
    ELSE 0

\* Mutant: the rising diagonal is left out of the scan.
DirectionsNoRisingDiagonal == {<<0, 1>>, <<1, 0>>, <<1, 1>>}

Directions == {<<0, 1>>, <<1, 0>>, <<1, 1>>, <<-1, 1>>}

\* _check_win_from: some direction through (r, c) totals at least four.
CheckWinFrom(b, r, c, player, nrows, ncols) ==
    \E d \in Directions :
        CountDir(b, r, c, d[1], d[2], player, nrows, ncols)
            + CountDir(b, r, c, -d[1], -d[2], player, nrows, ncols) - 1 >= WinLength

\* drop_piece's scan: from row r upward while the cell is occupied.
RECURSIVE ScanUp(_, _, _, _, _)
ScanUp(b, r, col, nrows, ncols) ==
    IF r >= 0 /\ Cell(b, r, col, nrows, ncols) # EMPTY
    THEN ScanUp(b, r - 1, col, nrows, ncols)
    ELSE r

\* Mutant: the first empty cell is looked for from the top of the column.
LandingRowFromTop(b, col, nrows, ncols) ==
    IF Cell(b, 0, col, nrows, ncols) = EMPTY THEN 0 ELSE -1

LandingRow(b, col, nrows, ncols) == ScanUp(b, nrows - 1, col, nrows, ncols)

\* drop_piece's early returns, in order.
\* Mutant: the guard forgets the winner.
TerminalDrawOnly(w, d) == d

Terminal(w, d) == w # 0 \/ d

\* Mutant: the lower end of the range is not checked.
OutOfRangeUpperOnly(col, ncols) == col >= ncols

OutOfRange(col, ncols) == col < 0 \/ col >= ncols

ColumnFull(b, col, nrows, ncols) == Cell(b, 0, col, nrows, ncols) # EMPTY

\* Mutant: neither full-column check is made.
RejectedNoFullCheck(b, col, w, d, nrows, ncols) ==
    \/ Terminal(w, d)
    \/ OutOfRange(col, ncols)

Rejected(b, col, w, d, nrows, ncols) ==
    \/ Terminal(w, d)
    \/ OutOfRange(col, ncols)
    \/ ColumnFull(b, col, nrows, ncols)
    \/ LandingRow(b, col, nrows, ncols) < 0

\* Mutant: the other player's mark is written.
PlaceOtherMark(b, r, col, player, nrows, ncols) ==
    [b EXCEPT ![Idx(r, nrows)][Idx(col, ncols)] = IF player = P1 THEN P2 ELSE P1]

\* self.board[r][col] = self.current_player
Place(b, r, col, player, nrows, ncols) ==
    [b EXCEPT ![Idx(r, nrows)][Idx(col, ncols)] = player]

\* The terminal check after the placement: win first, draw only if no win.
WinnerAfter(won, player, w) == IF won THEN player ELSE w

\* Mutant: the draw test is an `if`, not an `elif`.
DrawAfterIgnoringWin(b, won, d, ncols) ==
    IF Len(ValidMoves(b, ncols)) = 0 THEN TRUE ELSE d

\* Mutant: the draw is declared while one column is still open.
DrawAfterOneColumnLeft(b, won, d, ncols) ==
    IF ~won /\ Len(ValidMoves(b, ncols)) <= 1 THEN TRUE ELSE d

\* Mutant: a full board is not declared a draw.
DrawAfterNever(b, won, d, ncols) == d

DrawAfter(b, won, d, ncols) ==
    IF ~won /\ Len(ValidMoves(b, ncols)) = 0 THEN TRUE ELSE d

\* The turn advance: flipped only when the game did not just end.
\* Mutant: the turn is flipped after every placement.
NextPlayerAlways(player, w, d) == IF player = P1 THEN P2 ELSE P1

\* Mutant: the turn never passes.
NextPlayerNever(player, w, d) == player

NextPlayer(player, w, d) ==
    IF w = 0 /\ ~d THEN (IF player = P1 THEN P2 ELSE P1) ELSE player

\* ------------------------------------------------------------------ state
Constructed(cfgs) ==
    /\ config \in cfgs
    /\ board = EmptyBoard(config.rows, config.cols)
    /\ current_player = P1
    /\ last_move = None
    /\ winner = 0
    /\ is_draw = FALSE
    /\ call = [op |-> "__init__", arg |-> 0]
    /\ result = NotPlaced
    /\ moves = <<>>

\* Mutant: winner and is_draw are not cleared.
reset_keeping_outcome(first_player) ==
    /\ board' = EmptyBoard(config.rows, config.cols)
    /\ current_player' = first_player
    /\ last_move' = None
    /\ call' = [op |-> "reset", arg |-> first_player]
    /\ result' = NotPlaced
    /\ UNCHANGED <<config, winner, is_draw>>

\* Mutant: the board is not cleared.
reset_keeping_board(first_player) ==
    /\ current_player' = first_player
    /\ last_move' = None
    /\ winner' = 0
    /\ is_draw' = FALSE
    /\ call' = [op |-> "reset", arg |-> first_player]
    /\ result' = NotPlaced
    /\ UNCHANGED <<config, board>>

reset(first_player) ==
    /\ board' = EmptyBoard(config.rows, config.cols)
    /\ current_player' = first_player
    /\ last_move' = None
    /\ winner' = 0
    /\ is_draw' = FALSE
    /\ call' = [op |-> "reset", arg |-> first_player]
    /\ result' = NotPlaced       \* reset returns nothing: no result is outstanding
    /\ UNCHANGED config

drop_piece(col) ==
    LET nrows == config.rows
        ncols == config.cols
    IN  /\ call' = [op |-> "drop_piece", arg |-> col]
        /\ UNCHANGED config
        /\ IF Rejected(board, col, winner, is_draw, nrows, ncols)
           THEN /\ result' = NotPlaced
                /\ UNCHANGED game
           ELSE \E r \in {LandingRow(board, col, nrows, ncols)} :
                    /\ board' = Place(board, r, col, current_player, nrows, ncols)
                    /\ last_move' = Some(<<r, col>>)
                    /\ \E won \in {CheckWinFrom(board', r, col, current_player, nrows, ncols)} :
                          /\ winner' = WinnerAfter(won, current_player, winner)
                          /\ is_draw' = DrawAfter(board', won, is_draw, ncols)
                    /\ result' = MakeResult(r, col, winner', is_draw')
                    /\ current_player' = NextPlayer(current_player, winner', is_draw')

\* Mutant: the call also forgets the last move.
valid_moves_clearing ==
    /\ moves' = ValidMoves(board, config.cols)
    /\ call' = [op |-> "valid_moves", arg |-> 0]
    /\ result' = NotPlaced
    /\ last_move' = None
    /\ UNCHANGED <<config, board, current_player, winner, is_draw>>

\* valid_moves(): a list built from the board; nothing is assigned.
valid_moves ==
    /\ moves' = ValidMoves(board, config.cols)
    /\ call' = [op |-> "valid_moves", arg |-> 0]
    /\ result' = NotPlaced       \* no MoveResult is outstanding
    /\ UNCHANGED <<config, game>>

\* A list returned by valid_moves() is not kept across the next call.
NoList == moves' = <<>>

\* The engine used headless: no host is attached.
NoEvent == [handler |-> "", dropped |-> FALSE, cancelled |-> {}]

\* The hosts' constructors: both sides human, no automated turn waiting.
HostConstructed ==
    /\ p1_ai = None
    /\ p2_ai = None
    /\ turn_token = 0
    /\ ai_job_id = None
    /\ after = {}
    /\ event = NoEvent
    /\ hooks = <<>>
    /\ chosen = None

HostOff == ui = "none" /\ HostConstructed

NoHost == UNCHANGED host

Init == Constructed(Configs) /\ HostOff

Next ==
    \/ \E first_player \in FirstPlayers : reset(first_player) /\ NoList /\ NoHost
    \/ \E col \in ColArgs(config.cols) : drop_piece(col) /\ NoList /\ NoHost
    \/ valid_moves /\ NoHost

Spec == Init /\ [][Next]_vars

\* reset takes first_player unchecked: the engine accepts any integer. The
\* arguments tried are the three cell values and the next integer.
ResetArgs == EMPTY..(P2 + 1)

AnyResetNext ==
    \/ \E first_player \in ResetArgs : reset(first_player) /\ NoList /\ NoHost
    \/ \E col \in ColArgs(config.cols) : drop_piece(col) /\ NoList /\ NoHost
    \/ valid_moves /\ NoHost

AnyResetSpec == Init /\ [][AnyResetNext]_vars

\* Construction as an operation: Connect4Game(Connect4Config(rows, cols)) for
\* dimensions from one below the range up, and Connect4Game() with the
\* defaults. Before the call there is no engine; a rejected configuration
\* raises ValueError and leaves none.
DefaultConfig == [rows |-> DefaultRows, cols |-> DefaultCols]

ConfigArgs == [rows : -1..MaxRows, cols : -1..MaxCols] \cup {DefaultConfig}

NoBoard == <<>>

NewInit ==
    /\ config \in ConfigArgs
    /\ board = NoBoard
    /\ current_player = 0
    /\ last_move = None
    /\ winner = 0
    /\ is_draw = FALSE
    /\ call = [op |-> "Connect4Game", arg |-> 0]
    /\ result = NotPlaced
    /\ moves = <<>>
    /\ HostOff

new_game ==
    /\ call.op = "Connect4Game"
    /\ IF ValidConfig(config.rows, config.cols)
       THEN /\ board' = EmptyBoard(config.rows, config.cols)
            /\ current_player' = P1
            /\ last_move' = None
            /\ winner' = 0
            /\ is_draw' = FALSE
            /\ call' = [op |-> "__init__", arg |-> 0]
       ELSE /\ call' = [op |-> "ValueError", arg |-> 0]
            /\ UNCHANGED game
    /\ UNCHANGED <<config, result, moves>>
    /\ NoHost

Built == call.op \notin {"Connect4Game", "ValueError"}

\* The engine is played on after construction on the shapes within the bounds.
NewNext ==
    \/ new_game
    \/ (Built /\ config \in Configs /\ Next)

NewSpec == NewInit /\ [][NewNext]_vars

\* Games as the hosts drive them: Start New Game resets with P1 to move, and a
\* column reaches drop_piece only while the game is running and the column is
\* in valid_moves().
\* Mutant: the membership test always passes.
InSeqAlways(x, s) == TRUE

InSeq(x, s) == \E i \in 1..Len(s) : s[i] = x

HostStartNewGame == reset(P1) /\ NoList

PieceCount(b, nrows, ncols) ==
    Cardinality({rc \in (0..(nrows - 1)) \X (0..(ncols - 1)) : b[rc[1]][rc[2]] # EMPTY})

HostMove(col) ==
    /\ PieceCount(board, config.rows, config.cols) < MaxPieces
    /\ ~Terminal(winner, is_draw)
    /\ InSeq(col, ValidMoves(board, config.cols))
    /\ drop_piece(col)
    /\ NoList

PlayInit == Constructed(PlayConfigs) /\ HostOff

PlayNext ==
    \/ HostStartNewGame /\ NoHost
    \/ \E col \in 0..(config.cols - 1) : HostMove(col) /\ NoHost

PlaySpec == PlayInit /\ [][PlayNext]_vars

\* ------------------------------------------------------------------- hosts
\* Connect4TkApp (ui/tkinter_ui.py) and Connect4WidgetApp (ui/ipywidgets_ui.py)
\* own one engine and up to two agents. The Tkinter host runs an automated
\* turn as a scheduled job carrying the turn token; the ipywidgets host runs
\* it inside the handler that made it due, before any other handler starts.
Hosts == {"tkinter", "ipywidgets"}

\* Agent classes: the reference RandomAI, and any other subclass of
\* Connect4AIPlayer wired into _make_player.
Agents == {"RandomAI", "Connect4AIPlayer"}

Selections == {None} \cup {Some(a) : a \in Agents}

\* Start New Game is followed MaxGames times.
MaxGames == 2

\* Boards the hosts are followed on.
HostConfigs == Configs

\* Outcome of a choose_move call: the exception or the returned column, and
\* the item assignment the agent tried on its board argument, if any.
Raised == None
Returned(col) == Some(col)

Outcome(ret, write) == [ret |-> ret, write |-> write]

\* Mutant: an index into valid_moves is returned instead of the element.
RandomIndex(valid) ==
    IF valid = <<>>
    THEN {Outcome(Raised, None)}
    ELSE {Outcome(Returned(i - 1), None) : i \in 1..Len(valid)}

\* RandomAI.choose_move: random.choice(list(valid_moves)), an element at some
\* position; IndexError on an empty sequence.
RandomChoice(valid) ==
    IF valid = <<>>
    THEN {Outcome(Raised, None)}
    ELSE {Outcome(Returned(valid[i]), None) : i \in 1..Len(valid)}

\* Item assignments an agent can try on the board it was handed.
Writes(nrows, ncols) ==
    {Some([r |-> r, c |-> c, v |-> v]) :
        r \in 0..(nrows - 1), c \in 0..(ncols - 1), v \in {EMPTY, P1, P2}}

\* Any other agent: choose_move raises (the base class always does), with or
\* without having tried to write to its board argument, or returns a column
\* from one below the range to one above it.
AnyChoice(nrows, ncols) ==
    {Outcome(Raised, w) : w \in {None} \cup Writes(nrows, ncols)}
        \cup {Outcome(Returned(c), None) : c \in ColArgs(ncols)}

choose_move(ai, valid, nrows, ncols) ==
    IF ai = Some("RandomAI") THEN RandomChoice(valid) ELSE AnyChoice(nrows, ncols)

\* Mutant: the rows are handed over bottom row first.
BoardCopyReversed(b, nrows, ncols) ==
    [r \in 0..(nrows - 1) |-> [c \in 0..(ncols - 1) |-> b[nrows - 1 - r][c]]]

\* board_copy = tuple(tuple(row) for row in self.game.board)
BoardCopy(b, nrows, ncols) ==
    [r \in 0..(nrows - 1) |-> [c \in 0..(ncols - 1) |-> b[r][c]]]

\* tuple(valid)
TupleOf(valid) == [i \in 1..Len(valid) |-> valid[i]]

\* Mutant: the engine's own lists are handed to the agent, so its item
\* assignment lands in the engine's board.
BoardAliased(b, write) ==
    IF write = None THEN b
    ELSE LET w == CHOOSE x \in write : TRUE IN [b EXCEPT ![w.r][w.c] = w.v]

\* The engine's board after the agent's item assignment on board_copy: tuples
\* reject it (TypeError) and share nothing with the engine's lists.
BoardAfterWrite(b, write) == b

\* Mutant: no side counts as agent-controlled.
IsAiPlayerNever(player_id, a1, a2) == FALSE

IsAiPlayer(player_id, a1, a2) ==
    (player_id = P1 /\ a1 # None) \/ (player_id = P2 /\ a2 # None)

CurrentAi(player, a1, a2) == IF player = P1 THEN a1 ELSE a2

Notify(cond, agent, hook, arg) ==
    IF cond THEN <<[agent |-> agent, hook |-> hook, arg |-> arg]>> ELSE <<>>

NewGameHooks(a1, a2) ==
    Notify(a1 # None, P1, "on_new_game", <<P1>>)
        \o Notify(a2 # None, P2, "on_new_game", <<P2>>)

\* Mutant: the opponent's agent is not told.
AfterMoveHooksMoverOnly(res, b, a1, a2) ==
    IF ~res.placed \/ res.row = None \/ res.col = None
    THEN <<>>
    ELSE LET r == CHOOSE x \in res.row : TRUE
             c == CHOOSE x \in res.col : TRUE
             mover == b[r][c]
         IN  Notify(mover = P1 /\ a1 # None, P1, "on_ai_move", <<r, c>>)
                 \o Notify(mover = P2 /\ a2 # None, P2, "on_ai_move", <<r, c>>)

\* _after_move_hooks: the mover's agent first, then the opponent's.
AfterMoveHooks(res, b, a1, a2) ==
    IF ~res.placed \/ res.row = None \/ res.col = None
    THEN <<>>
    ELSE LET r == CHOOSE x \in res.row : TRUE
             c == CHOOSE x \in res.col : TRUE
             mover == b[r][c]
             opponent == IF mover = P1 THEN P2 ELSE P1
         IN  Notify(mover = P1 /\ a1 # None, P1, "on_ai_move", <<r, c>>)
                 \o Notify(mover = P2 /\ a2 # None, P2, "on_ai_move", <<r, c>>)
                 \o Notify(opponent = P1 /\ a1 # None, P1, "on_opponent_move", <<r, c>>)
                 \o Notify(opponent = P2 /\ a2 # None, P2, "on_opponent_move", <<r, c>>)

Handled(name, dropped) == [handler |-> name, dropped |-> dropped, cancelled |-> {}]

\* Mutant: the waiting job is left in place.
CancelNothing(jobs, job_id) == jobs

\* _cancel_ai_job: after_cancel(self._ai_job_id) when the field is not None;
\* a job that already ran is no longer waiting and nothing is removed.
CancelAiJob(jobs, job_id) == jobs \ job_id

\* _sync_controls ends in _schedule_ai_if_needed (Tkinter: cancel the waiting
\* job, then schedule one with the current token) or _maybe_trigger_ai
\* (ipywidgets: run the turn now) when the game runs and an agent is to move.
\* Mutant: the waiting job is cancelled but no automated turn is scheduled.
sync_controls_unscheduled(waiting) ==
    /\ after' = CancelAiJob(waiting, ai_job_id)
    /\ ai_job_id' = None

sync_controls(waiting) ==
    LET due == winner' = 0 /\ ~is_draw' /\ IsAiPlayer(current_player', p1_ai', p2_ai')
    IN  /\ after' = CancelAiJob(waiting, ai_job_id) \cup (IF due THEN {turn_token'} ELSE {})
        /\ ai_job_id' = IF due /\ ui = "tkinter" THEN Some(turn_token') ELSE None

\* A handler returned before _sync_controls.
Returned_early == UNCHANGED <<ai_job_id, after>>

\* The ipywidgets host finishes its automated turns before the next handler.
Idle == ui = "ipywidgets" => after = {}

on_start_new_game(s1, s2) ==
    /\ Idle
    /\ turn_token < MaxGames
    /\ p1_ai' = s1
    /\ p2_ai' = s2
    /\ reset(P1)
    /\ NoList
    /\ turn_token' = turn_token + 1
    /\ hooks' = NewGameHooks(p1_ai', p2_ai')
    /\ chosen' = None
    /\ event' = [handler |-> "_on_start_new_game", dropped |-> FALSE,
                  cancelled |-> after \ CancelAiJob(after, ai_job_id)]
    /\ sync_controls(after)
    /\ UNCHANGED ui

on_human_move(col) ==
    /\ Idle
    /\ chosen' = None
    /\ UNCHANGED <<ui, p1_ai, p2_ai, turn_token>>
    /\ IF Terminal(winner, is_draw) \/ IsAiPlayer(current_player, p1_ai, p2_ai)
       THEN /\ event' = Handled("_on_human_move", FALSE)
            /\ hooks' = <<>>
            /\ Returned_early
            /\ UNCHANGED <<config, game, call, result, moves>>
       ELSE /\ drop_piece(col)
            /\ NoList
            /\ event' = Handled("_on_human_move", TRUE)
            /\ IF result'.placed
               THEN /\ hooks' = AfterMoveHooks(result', board', p1_ai, p2_ai)
                    /\ sync_controls(after)
               ELSE /\ hooks' = <<>>
                    /\ Returned_early

\* _do_ai_turn(token) / _do_ai_turn_sync(): the waiting turn runs and is gone.
do_ai_turn(token) ==
    /\ token \in after
    /\ UNCHANGED <<ui, p1_ai, p2_ai, turn_token>>
    /\ LET ai == CurrentAi(current_player, p1_ai, p2_ai)
           valid == ValidMoves(board, config.cols)
       IN  IF \/ ui = "tkinter" /\ token # turn_token
              \/ Terminal(winner, is_draw)
              \/ ai = None
              \/ valid = <<>>
           THEN /\ event' = Handled("_do_ai_turn", FALSE)
                /\ hooks' = <<>>
                /\ chosen' = None
                /\ after' = after \ {token}
                /\ UNCHANGED <<config, game, call, result, moves, ai_job_id>>
           ELSE \E out \in choose_move(ai, valid, config.rows, config.cols) :
                    /\ chosen' = Some([agent |-> ai,
                                       board |-> BoardCopy(board, config.rows, config.cols),
                                       player_id |-> current_player,
                                       valid_moves |-> TupleOf(valid),
                                       last_move |-> last_move,
                                       ret |-> out.ret])
                    /\ IF out.ret = Raised \/ \A col \in out.ret : ~InSeq(col, valid)
                       THEN /\ board' = BoardAfterWrite(board, out.write)
                            /\ event' = Handled("_do_ai_turn", FALSE)
                            /\ hooks' = <<>>
                            /\ after' = after \ {token}
                            /\ UNCHANGED <<config, current_player, last_move, winner,
                                           is_draw, call, result, moves, ai_job_id>>
                       ELSE \E col \in out.ret :
                                /\ drop_piece(col)
                                /\ NoList
                                /\ event' = Handled("_do_ai_turn", TRUE)
                                /\ IF result'.placed
                                   THEN /\ hooks' = AfterMoveHooks(result', board', p1_ai, p2_ai)
                                        /\ sync_controls(after \ {token})
                                   ELSE /\ hooks' = <<>>
                                        /\ after' = after \ {token}
                                        /\ UNCHANGED ai_job_id

HostInit == Constructed(HostConfigs) /\ ui \in Hosts /\ HostConstructed

HostNext ==
    \/ \E s1 \in Selections, s2 \in Selections : on_start_new_game(s1, s2)
    \/ \E col \in 0..(config.cols - 1) : on_human_move(col)
    \/ \E token \in after : do_ai_turn(token)

HostSpec == HostInit /\ [][HostNext]_vars

\* The hosts with their event loop running: a scheduled automated turn is
\* eventually run (Tkinter: root.after fires the job after _ai_delay_ms;
\* ipywidgets: the call made by _maybe_trigger_ai is executed).
TimerFires == \E token \in after : do_ai_turn(token)

HostLiveSpec == HostInit /\ [][HostNext]_vars /\ WF_vars(TimerFires)

\* The engine with legal columns kept being played: a column of valid_moves()
\* is dropped into whenever the game is running, whatever other calls are
\* made in between.
LegalDrop ==
    \E col \in 0..(config.cols - 1) :
        /\ ~Terminal(winner, is_draw)
        /\ InSeq(col, ValidMoves(board, config.cols))
        /\ drop_piece(col)
        /\ NoList
        /\ NoHost

PlayOnSpec == Init /\ [][Next]_vars /\ WF_vars(LegalDrop)

\* --------------------------------------------------------------- scenarios
\* A fresh engine with the default configuration, played by drop_piece on its
\* columns for the first ScenarioPieces placements.
ScenarioPieces == 5

ScenarioInit == Constructed({DefaultConfig}) /\ HostOff

ScenarioNext ==
    \E col \in 0..(config.cols - 1) :
        /\ PieceCount(board, config.rows, config.cols) < ScenarioPieces
        /\ drop_piece(col)
        /\ NoList
        /\ NoHost

ScenarioSpec == ScenarioInit /\ [][ScenarioNext]_vars

\* ------------------------------------------------------------------ agents
\* RandomAI called directly, as a test of the agent contract does: choose_move
\* on a valid_moves sequence of up to MaxMoves columns of the default board,
\* with either player id and with or without a last move, and the three
\* hooks. The engine is fresh or one placement old and is not played on.
MaxMoves == 3

MoveLists == UNION {[1..n -> 0..(DefaultCols - 1)] : n \in 0..MaxMoves}

FirstDrop == <<DefaultRows - 1, 0>>

LastMoveArgs == {None, Some(FirstDrop)}

HookCalls ==
    {[agent |-> P1, hook |-> "on_new_game", arg |-> <<P1>>],
     [agent |-> P1, hook |-> "on_opponent_move", arg |-> FirstDrop],
     [agent |-> P1, hook |-> "on_ai_move", arg |-> FirstDrop]}

random_choose_move(player_id, lm) ==
    /\ \E out \in choose_move(p1_ai, moves, config.rows, config.cols) :
          chosen' = Some([agent |-> p1_ai, board |-> board, player_id |-> player_id,
                          valid_moves |-> moves,
                          last_move |-> lm, ret |-> out.ret])
    /\ event' = Handled("choose_move", FALSE)
    /\ hooks' = <<>>
    /\ UNCHANGED <<config, game, call, result, moves,
                   ui, p1_ai, p2_ai, turn_token, ai_job_id, after>>

\* on_new_game, on_opponent_move, on_ai_move: RandomAI inherits the base
\* class's hooks, which return at once.
random_hook(h) ==
    /\ event' = Handled(h.hook, FALSE)
    /\ hooks' = <<h>>
    /\ UNCHANGED <<config, game, call, result, moves,
                   ui, p1_ai, p2_ai, turn_token, ai_job_id, after, chosen>>

AgentInit ==
    /\ config = DefaultConfig
    /\ \/ /\ board = EmptyBoard(DefaultRows, DefaultCols)
          /\ current_player = P1
          /\ last_move = None
          /\ call = [op |-> "__init__", arg |-> 0]
          /\ result = NotPlaced
       \/ /\ board = Place(EmptyBoard(DefaultRows, DefaultCols), FirstDrop[1], FirstDrop[2],
                           P1, DefaultRows, DefaultCols)
          /\ current_player = P2
          /\ last_move = Some(FirstDrop)
          /\ call = [op |-> "drop_piece", arg |-> FirstDrop[2]]
          /\ result = MakeResult(FirstDrop[1], FirstDrop[2], 0, FALSE)
    /\ winner = 0
    /\ is_draw = FALSE
    /\ moves \in MoveLists
    /\ ui = "none"
    /\ p1_ai = Some("RandomAI")
    /\ p2_ai = None
    /\ turn_token = 0
    /\ ai_job_id = None
    /\ after = {}
    /\ event = NoEvent
    /\ hooks = <<>>
    /\ chosen = None

AgentNext ==
    \/ \E player_id \in {P1, P2}, lm \in LastMoveArgs : random_choose_move(player_id, lm)
    \/ \E h \in HookCalls : random_hook(h)

AgentSpec == AgentInit /\ [][AgentNext]_vars

\* ------------------------------------------------------------- properties
Rows == 0..(config.rows - 1)
Cols == 0..(config.cols - 1)

Occupied(b, r, c) == b[r][c] # EMPTY

DropCalled == call.op = "drop_piece"

\* C1. Gravity: in every reachable state every occupied cell has all the cells
\* below it in its column (greater row index) occupied.
Gravity ==
    \A r \in Rows, c \in Cols :
        Occupied(board, r, c) => \A r2 \in (r + 1)..(config.rows - 1) : Occupied(board, r2, c)

\* A piece has just landed on a column stacked to the top of a board of at
\* least three rows, while another column is still empty.
GravityWitness ==
    /\ DropCalled /\ result.placed
    /\ config.rows >= 3
    /\ \E c \in Cols : last_move = Some(<<0, c>>)
    /\ \E c \in Cols : ~Occupied(board, config.rows - 1, c)

\* C2. Post-terminal immutability: a drop_piece call made once the game has a
\* winner or is drawn returns placed = FALSE and leaves board, winner, is_draw,
\* current_player and last_move unchanged (only reset starts play again).
PostTerminalStep ==
    ((winner # 0 \/ is_draw) /\ call'.op = "drop_piece") =>
        /\ result'.placed = FALSE
        /\ UNCHANGED <<board, winner, is_draw, current_player, last_move>>

PostTerminalImmutable == [][PostTerminalStep]_vars

\* A won game in which drop_piece was refused on an in-range column that still
\* has room.
PostTerminalWitness ==
    /\ winner # 0
    /\ DropCalled /\ ~result.placed
    /\ call.arg \in Cols
    /\ ~Occupied(board, 0, call.arg)

\* C3. Win detection agrees with a scan of the whole board: winner = p exactly
\* when the board holds four consecutive cells of p along a row, a column or a
\* diagonal; so no state without a winner holds such a line.
ScanDirections == {<<0, 1>>, <<1, 0>>, <<1, 1>>, <<1, -1>>}

LineAt(b, p, r, c, d) ==
    \A k \in 0..3 :
        /\ r + k * d[1] \in Rows
        /\ c + k * d[2] \in Cols
        /\ b[r + k * d[1]][c + k * d[2]] = p

HasLine(b, p) == \E r \in Rows, c \in Cols, d \in ScanDirections : LineAt(b, p, r, c, d)

WinIffLine == \A p \in {P1, P2} : (winner = p) <=> HasLine(board, p)

\* A game won by a rising diagonal and by no other line.
WinIffLineWitness ==
    /\ winner # 0
    /\ DropCalled /\ result.placed
    /\ \E r \in Rows, c \in Cols : LineAt(board, winner, r, c, <<1, -1>>)
    /\ \A r \in Rows, c \in Cols, d \in ScanDirections \ {<<1, -1>>} :
           ~LineAt(board, winner, r, c, d)

\* C4. Win priority over draw: after a placement that completes a line of four
\* for the mover and fills the last empty cell, winner is the mover and is_draw
\* is FALSE, in the engine and in the returned MoveResult.
BoardFull == \A r \in Rows, c \in Cols : Occupied(board, r, c)

MarkAt(b, move) == LET m == CHOOSE m \in move : TRUE IN b[m[1]][m[2]]

WinBeforeDraw ==
    (DropCalled /\ result.placed /\ BoardFull /\ HasLine(board, MarkAt(board, last_move))) =>
        /\ winner = MarkAt(board, last_move)
        /\ is_draw = FALSE
        /\ result.winner = MarkAt(board, last_move)
        /\ result.is_draw = FALSE

\* The last empty cell was just filled and the move won the game.
WinBeforeDrawWitness ==
    /\ DropCalled /\ result.placed
    /\ BoardFull
    /\ HasLine(board, MarkAt(board, last_move))
    /\ winner # 0

\* C5. Turn alternation: a placement that does not end the game hands the turn
\* to the other player; a placement that ends it leaves current_player at the
\* mark just placed (so a winner is the current player); a refused call leaves
\* current_player unchanged.
Ended(w, d) == w # 0 \/ d

TurnStep ==
    (call'.op = "drop_piece") =>
        /\ (result'.placed /\ ~Ended(winner', is_draw')) =>
               /\ current_player' # current_player
               /\ {current_player, current_player'} = {P1, P2}
        /\ (result'.placed /\ Ended(winner', is_draw')) =>
               /\ current_player' = current_player
               /\ current_player' = MarkAt(board', last_move')
               /\ (winner' # 0 => winner' = current_player')
        /\ (~result'.placed) => current_player' = current_player

TurnAlternation == [][TurnStep]_vars

\* A game that P2 ended with a placement: the turn stayed with P2.
TurnAlternationWitness ==
    /\ DropCalled /\ result.placed
    /\ Ended(winner, is_draw)
    /\ current_player = P2
    /\ MarkAt(board, last_move) = P2

\* C6. Out-of-range column: drop_piece(col) with col < 0 or col >= cols returns
\* placed = FALSE and leaves board, current_player, last_move, winner and
\* is_draw unchanged.
OutOfRangeStep ==
    (call'.op = "drop_piece" /\ (call'.arg < 0 \/ call'.arg >= config.cols)) =>
        /\ result'.placed = FALSE
        /\ UNCHANGED <<board, current_player, last_move, winner, is_draw>>

OutOfRangeNoOp == [][OutOfRangeStep]_vars

\* drop_piece(-1) was refused in a running game whose last column has room.
OutOfRangeWitness ==
    /\ DropCalled /\ ~result.placed
    /\ call.arg = -1
    /\ ~Ended(winner, is_draw)
    /\ ~Occupied(board, 0, config.cols - 1)

\* C7. Full column: in a running game drop_piece on an in-range column whose
\* row-0 cell is occupied returns placed = FALSE and leaves board,
\* current_player, last_move, winner and is_draw unchanged.
FullColumnStep ==
    (/\ call'.op = "drop_piece"
     /\ ~Ended(winner, is_draw)
     /\ call'.arg \in Cols
     /\ Occupied(board, 0, call'.arg)) =>
        /\ result'.placed = FALSE
        /\ UNCHANGED <<board, current_player, last_move, winner, is_draw>>

FullColumnNoOp == [][FullColumnStep]_vars

\* drop_piece was refused on a full column of a running game.
FullColumnWitness ==
    /\ DropCalled /\ ~result.placed
    /\ ~Ended(winner, is_draw)
    /\ call.arg \in Cols
    /\ Occupied(board, 0, call.arg)

\* C8. Landing cell: a placement writes the mover's mark (current_player before
\* the call) into the lowest empty cell of the column, records that cell as
\* last_move, and changes no other cell.
LandingStep ==
    (call'.op = "drop_piece" /\ result'.placed) =>
        /\ call'.arg \in Cols
        /\ current_player \in {P1, P2}
        /\ \E r \in Rows :
               /\ ~Occupied(board, r, call'.arg)
               /\ \A r2 \in Rows : r2 > r => Occupied(board, r2, call'.arg)
               /\ board'[r][call'.arg] = current_player
               /\ last_move' = Some(<<r, call'.arg>>)
               /\ \A r2 \in Rows, c2 \in Cols :
                      <<r2, c2>> # <<r, call'.arg>> => board'[r2][c2] = board[r2][c2]

LandingCell == [][LandingStep]_vars

\* A piece has landed on top of another piece, below the top row.
LandingCellWitness ==
    /\ DropCalled /\ result.placed
    /\ \E r \in Rows : last_move = Some(<<r, call.arg>>) /\ 0 < r /\ r < config.rows - 1

\* C9. MoveResult is the post-move snapshot: a placed result carries the
\* engine's last_move, winner and is_draw as they are after the call; a refused
\* call's result carries no row and no col, winner 0 and is_draw FALSE.
ResultSnapshot ==
    DropCalled =>
        IF result.placed
        THEN /\ \E r \in Rows, c \in Cols :
                    result.row = Some(r) /\ result.col = Some(c) /\ last_move = Some(<<r, c>>)
             /\ result.winner = winner
             /\ result.is_draw = is_draw
        ELSE /\ result.row = None
             /\ result.col = None
             /\ result.winner = 0
             /\ result.is_draw = FALSE

\* The placement just returned won the game.
ResultSnapshotWitness ==
    /\ DropCalled /\ result.placed
    /\ result.winner # 0

\* C10. Draw detection: is_draw holds exactly when the board is full
\* (valid_moves() is empty) and there is no winner; a winner and a draw never
\* hold together.
DrawIffFull ==
    /\ is_draw <=> (Len(ValidMoves(board, config.cols)) = 0 /\ BoardFull /\ winner = 0)
    /\ ~(winner # 0 /\ is_draw)

\* A drawn game on a board of at least three rows.
DrawIffFullWitness ==
    /\ is_draw
    /\ DropCalled /\ result.placed
    /\ config.rows >= 3

\* C11. valid_moves() returns exactly the columns of [0, cols) whose row-0 cell
\* is Empty, in strictly ascending order; it is empty exactly when the board is
\* full; a column is in it exactly when the column has an empty cell.
ValidMovesCalled == call.op = "valid_moves"

ValidMovesExact ==
    ValidMovesCalled =>
        /\ \A i \in 1..Len(moves) : moves[i] \in Cols /\ board[0][moves[i]] = EMPTY
        /\ \A c \in Cols : board[0][c] = EMPTY => \E i \in 1..Len(moves) : moves[i] = c
        /\ \A i \in 1..(Len(moves) - 1) : moves[i] < moves[i + 1]
        /\ (Len(moves) = 0) <=> BoardFull
        /\ \A c \in Cols :
               (\E i \in 1..Len(moves) : moves[i] = c) <=> (\E r \in Rows : ~Occupied(board, r, c))

\* valid_moves() returned two columns, skipping a full column between them.
ValidMovesWitness ==
    /\ ValidMovesCalled
    /\ Len(moves) >= 2
    /\ \E i \in 1..(Len(moves) - 1) : moves[i + 1] > moves[i] + 1

\* C12. valid_moves() is a pure read: the call changes no engine state, and a
\* call that directly follows another returns the same list.
PureReadStep ==
    (call'.op = "valid_moves") =>
        /\ UNCHANGED <<config, board, current_player, last_move, winner, is_draw>>
        /\ (call.op = "valid_moves" => moves' = moves)

ValidMovesPure == [][PureReadStep]_vars

\* valid_moves() was called in a game with a last move and a full column.
ValidMovesPureWitness ==
    /\ ValidMovesCalled
    /\ last_move # None
    /\ Len(moves) < config.cols
    /\ Len(moves) > 0

\* C13. reset(first_player), from any reachable state, yields the construction
\* state but for the starting player: every cell Empty, no last move, no
\* winner, no draw, current_player = first_player, same dimensions; and a
\* drop_piece on any in-range column right after it is accepted.
ResetStep ==
    /\ (call'.op = "reset") =>
           /\ config' = config
           /\ DOMAIN board' = Rows
           /\ \A r \in Rows : DOMAIN board'[r] = Cols /\ \A c \in Cols : board'[r][c] = EMPTY
           /\ last_move' = None
           /\ winner' = 0
           /\ is_draw' = FALSE
           /\ current_player' = call'.arg
    /\ (call.op = "reset" /\ call'.op = "drop_piece" /\ call'.arg \in Cols) =>
           result'.placed

ResetRestarts == [][ResetStep]_vars

\* The only piece on the board is P2's: reset(P2) was called and the
\* drop_piece after it was accepted.
ResetRestartsWitness ==
    /\ DropCalled /\ result.placed
    /\ PieceCount(board, config.rows, config.cols) = 1
    /\ MarkAt(board, last_move) = P2

\* C14. Construction: with rows > 0 and cols > 0 it succeeds and yields a
\* rows x cols board of Empty cells, current_player = P1, no last move, no
\* winner, no draw (6 x 7 when no config is given); with rows <= 0 or
\* cols <= 0 it fails with an error and no engine exists.
ConstructionOutcome ==
    /\ (call.op = "__init__") =>
           /\ config.rows > 0 /\ config.cols > 0
           /\ DOMAIN board = Rows
           /\ \A r \in Rows : DOMAIN board[r] = Cols /\ \A c \in Cols : board[r][c] = EMPTY
           /\ current_player = P1
           /\ last_move = None
           /\ winner = 0
           /\ is_draw = FALSE
    /\ (call.op = "ValueError") =>
           /\ config.rows <= 0 \/ config.cols <= 0
           /\ board = NoBoard

\* Connect4Game() has built the default board of 6 rows and 7 columns.
ConstructionWitness ==
    /\ call.op = "__init__"
    /\ config.rows = 6 /\ config.cols = 7
    /\ DOMAIN board = 0..5
    /\ \A r \in 0..5 : DOMAIN board[r] = 0..6

\* C15. Value domains: in every state reachable by construction, reset with
\* any argument the engine accepts, and drop_piece, current_player is P1 or P2,
\* winner is 0, P1 or P2, and every cell is 0, P1 or P2.
ValueDomains ==
    /\ current_player \in {P1, P2}
    /\ winner \in {0, P1, P2}
    /\ \A r \in Rows, c \in Cols : board[r][c] \in {EMPTY, P1, P2}

\* C16. Agent protocol violation causes no mutation: when the agent's
\* choose_move raises, or returns a column that is not in valid_moves(), the
\* automated turn calls no drop_piece, leaves board, current_player,
\* last_move, winner and is_draw as they were, delivers no lifecycle hook,
\* and is over with nothing left running, so Start New Game is still served.
ElemsOf(s) == {s[i] : i \in 1..Len(s)}

ProtocolViolated ==
    /\ event'.handler = "_do_ai_turn"
    /\ chosen' # None
    /\ \A ch \in chosen' :
          ch.ret = Raised \/ ch.ret \cap ElemsOf(ValidMoves(board, config.cols)) = {}

ViolationStep ==
    ProtocolViolated =>
        /\ ~event'.dropped
        /\ UNCHANGED <<call, result>>
        /\ UNCHANGED game
        /\ hooks' = <<>>
        /\ after' = {}
        /\ UNCHANGED <<p1_ai, p2_ai, turn_token>>

ViolationNoMutation == [][ViolationStep]_vars

\* An automated turn whose agent returned a column outside valid_moves().
ViolationWitness ==
    /\ event = Handled("_do_ai_turn", FALSE)
    /\ \E ch \in chosen :
          /\ ch.ret # Raised
          /\ ch.ret \cap ElemsOf(ch.valid_moves) = {}
          /\ ch.last_move # None

\* C17. Lifecycle notifications are delivered exactly once per event, in
\* event order: a handler that placed a piece tells the mover's agent
\* on_ai_move((row, col)) and then the other side's agent
\* on_opponent_move((row, col)), each once and only if that side is an agent;
\* Start New Game tells every agent on_new_game(its player id) once, on the
\* reset engine; every other handler run (a rejected or refused placement, a
\* failed automated turn) tells nobody.
AgentOf(player) == IF player = P1 THEN p1_ai' ELSE p2_ai'

Other(player) == IF player = P1 THEN P2 ELSE P1

Told(player, hook, arg) ==
    IF AgentOf(player) = None THEN <<>>
    ELSE <<[agent |-> player, hook |-> hook, arg |-> arg]>>

HooksStep ==
    IF event'.handler = "_on_start_new_game"
    THEN /\ hooks' = Told(P1, "on_new_game", <<P1>>) \o Told(P2, "on_new_game", <<P2>>)
         /\ board' = EmptyBoard(config.rows, config.cols)
         /\ last_move' = None
    ELSE IF event'.dropped /\ result'.placed
    THEN \E r \in Rows, c \in Cols :
            /\ last_move' = Some(<<r, c>>)
            /\ board[r][c] = EMPTY
            /\ hooks' = Told(current_player, "on_ai_move", <<r, c>>)
                            \o Told(Other(current_player), "on_opponent_move", <<r, c>>)
    ELSE /\ hooks' = <<>>
         /\ UNCHANGED game

HooksOncePerEvent == [][HooksStep]_vars

\* An agent's placement in a game between two agents: both were told.
HooksWitness ==
    /\ event = Handled("_do_ai_turn", TRUE)
    /\ result.placed
    /\ Len(hooks) = 2
    /\ hooks[1].hook = "on_ai_move"
    /\ hooks[2].hook = "on_opponent_move"
    /\ hooks[1].agent # hooks[2].agent

\* C18. Agent receives a consistent snapshot: at every choose_move call the
\* board argument equals the engine board cell for cell, player_id is the
\* engine's current_player, valid_moves is the engine's valid_moves() and
\* last_move is the engine's last_move; the placement the host then makes
\* lands on exactly that board, and if no placement follows the engine's
\* board is still that board, whatever the agent did with its argument.
SnapshotStep ==
    \A ch \in chosen' :
        /\ \A r \in Rows, c \in Cols : ch.board[r][c] = board[r][c]
        /\ DOMAIN ch.board = Rows
        /\ ch.player_id = current_player
        /\ ch.valid_moves = ValidMoves(board, config.cols)
        /\ ch.last_move = last_move
        /\ IF event'.dropped
           THEN \E r \in Rows, c \in Cols :
                    /\ ch.ret = Returned(c)
                    /\ last_move' = Some(<<r, c>>)
                    /\ board' = [ch.board EXCEPT ![r][c] = ch.player_id]
           ELSE board' = ch.board

ConsistentSnapshot == [][SnapshotStep]_vars

\* A placement made from a snapshot taken in mid-game.
SnapshotWitness ==
    /\ event = Handled("_do_ai_turn", TRUE)
    /\ \E ch \in chosen :
          /\ ch.last_move # None
          /\ ch.ret \subseteq ElemsOf(ch.valid_moves)
          /\ Len(ch.valid_moves) < config.cols

\* C19. Reference random agent stays within valid_moves: on every call with a
\* non-empty valid_moves sequence, whatever the board, player_id and
\* last_move, RandomAI.choose_move returns (does not raise) and the value is
\* an element of valid_moves; a lifecycle hook changes nothing: not the
\* agent, not the engine, not what the next choose_move may return.
RandomStep ==
    /\ event'.handler = "choose_move" =>
          \A ch \in chosen' :
              ch.valid_moves # <<>> =>
                  /\ ch.ret # Raised
                  /\ \A col \in ch.ret : \E i \in 1..Len(ch.valid_moves) : ch.valid_moves[i] = col
    /\ event'.handler \in {h.hook : h \in HookCalls} =>
          /\ UNCHANGED <<config, game, p1_ai, p2_ai, chosen>>
          /\ Len(hooks') = 1

RandomWithinValid == [][RandomStep]_vars

\* The spec's scenario: valid_moves = [2, 4, 6], and 4 was returned.
RandomWitness ==
    /\ event.handler = "choose_move"
    /\ \E ch \in chosen : ch.valid_moves = <<2, 4, 6>> /\ ch.ret = Returned(4)

\* C20. Column-stack scenario: on a fresh default 6x7 board the first five
\* consecutive drop_piece(3) calls are all placed, the k-th lands at row
\* 6 - k of column 3 (rows 5, 4, 3, 2, 1) with mark P1 for odd k and P2 for
\* even k, and after each of them winner is 0 (None) and is_draw is false.
StackedOnly(k) ==
    /\ call = [op |-> "drop_piece", arg |-> 3]
    /\ PieceCount(board, config.rows, config.cols) = k
    /\ \A r \in Rows, c \in Cols : board[r][c] # EMPTY => c = 3

ColumnStack ==
    \A k \in 1..(DefaultRows - 1) :
        StackedOnly(k) =>
            /\ result = [placed |-> TRUE, row |-> Some(DefaultRows - k), col |-> Some(3),
                         winner |-> 0, is_draw |-> FALSE]
            /\ last_move = Some(<<DefaultRows - k, 3>>)
            /\ \A i \in 1..k :
                  board[DefaultRows - i][3] = (IF i % 2 = 1 THEN P1 ELSE P2)
            /\ winner = 0
            /\ ~is_draw
            /\ current_player = (IF k % 2 = 1 THEN P2 ELSE P1)

\* The fifth piece of the stack has landed at row 1.
ColumnStackWitness ==
    /\ StackedOnly(DefaultRows - 1)
    /\ last_move = Some(<<1, 3>>)
    /\ board[1][3] = P1
    /\ board[2][3] = P2

\* C21. Stale scheduled AI turns are discarded (Tkinter host): at most one
\* automated turn is waiting at any time, and it carries the current turn
\* token and is the job recorded in _ai_job_id; Start New Game cancels the
\* turn that was waiting and raises the token, so no turn scheduled before it
\* is left; and an automated turn that calls an agent, places a piece or
\* delivers a hook was scheduled in the game it acts in.
TurnActed == chosen' # None \/ event'.dropped \/ hooks' # <<>>

StaleStep ==
    ui = "tkinter" =>
        /\ Cardinality(after') <= 1
        /\ \A t \in after' : t = turn_token' /\ ai_job_id' = Some(t)
        /\ event'.handler = "_on_start_new_game" =>
              /\ turn_token' = turn_token + 1
              /\ event'.cancelled = after
              /\ after \cap after' = {}
        /\ event'.handler = "_do_ai_turn" /\ TurnActed => after = {turn_token}

StaleTurnsDiscarded == [][StaleStep]_vars

\* Start New Game was clicked while an automated turn was waiting: that turn
\* was cancelled, and the new game's first automated turn is waiting.
StaleTurnsWitness ==
    /\ ui = "tkinter"
    /\ event.handler = "_on_start_new_game"
    /\ event.cancelled # {}
    /\ after = {turn_token}
    /\ turn_token \notin event.cancelled

\* C22. Moves are made only by the controller of the side to move: a column
\* click is ignored (no drop_piece call, nothing changes) when the game is
\* over or the side to move is agent-controlled; an automated turn does
\* nothing when the side to move is human; and every piece placed for an
\* agent-controlled side comes from an automated turn in which that side's
\* own agent was asked for that side and returned the column played, every
\* piece placed for a human side from a click on that column.
Controller(player) == IF player = P1 THEN p1_ai ELSE p2_ai

Ignored ==
    /\ ~event'.dropped
    /\ chosen' = None
    /\ hooks' = <<>>
    /\ UNCHANGED <<game, call, result>>

ControllerStep ==
    /\ event'.handler = "_on_human_move"
            /\ (winner # 0 \/ is_draw \/ Controller(current_player) # None) => Ignored
    /\ event'.handler = "_do_ai_turn" /\ Controller(current_player) = None => Ignored
    /\ event'.handler \in {"_on_human_move", "_do_ai_turn"} /\ board' # board =>
          \E r \in Rows, c \in Cols :
              /\ board' = [board EXCEPT ![r][c] = current_player]
              /\ call' = [op |-> "drop_piece", arg |-> c]
              /\ IF Controller(current_player) = None
                 THEN event'.handler = "_on_human_move" /\ chosen' = None
                 ELSE /\ event'.handler = "_do_ai_turn"
                      /\ \E ch \in chosen' :
                            /\ ch.agent = Controller(current_player)
                            /\ ch.player_id = current_player
                            /\ ch.ret = Returned(c)

ControllerMoves == [][ControllerStep]_vars

\* A click was ignored in mid-game because an agent is to move.
ControllerWitness ==
    /\ event = Handled("_on_human_move", FALSE)
    /\ winner = 0
    /\ ~is_draw
    /\ Controller(current_player) # None
    /\ Controller(Other(current_player)) = None
    /\ last_move # None

\* C23. Piece-count balance: in a game begun by construction (f = P1) or by
\* reset(f), the pieces of f outnumber the other player's by 0 or 1, and
\* while the game is running f is to move exactly when the counts are equal.
\* Checked as an induction over the game: construction and every reset(f)
\* establish the balance for f, and every drop_piece keeps it.
CountOf(b, player) ==
    Cardinality({rc \in Rows \X Cols : b[rc[1]][rc[2]] = player})

Lead(b, f) == CountOf(b, f) - CountOf(b, Other(f))

Balanced(b, f, player, w, d) ==
    /\ Lead(b, f) \in {0, 1}
    /\ (w = 0 /\ ~d) => (player = f <=> Lead(b, f) = 0)

BalanceStep ==
    /\ call.op = "__init__" => Balanced(board, P1, current_player, winner, is_draw)
    /\ call'.op = "reset" =>
          Balanced(board', call'.arg, current_player', winner', is_draw')
    /\ call'.op = "drop_piece" =>
          \A f \in {P1, P2} :
              Balanced(board, f, current_player, winner, is_draw)
                  => Balanced(board', f, current_player', winner', is_draw')

PieceBalance == [][BalanceStep]_vars

\* A running game begun by reset(P2) in which P2 has moved once more than P1.
PieceBalanceWitness ==
    /\ DropCalled
    /\ result.placed
    /\ winner = 0
    /\ ~is_draw
    /\ Lead(board, P2) = 1
    /\ CountOf(board, P1) >= 1
    /\ current_player = P1

\* C24. Every game terminates: each drop_piece that returns placed=True
\* raises the number of occupied cells by exactly one, a refused one leaves
\* it, reset puts it back to zero, and it never exceeds rows x cols (so at
\* most rows x cols placements lie between two resets); a running game
\* always has a valid move; and when legal columns keep being played the
\* game reaches a terminal state unless a reset comes first.
Pieces(b) == Cardinality({rc \in Rows \X Cols : b[rc[1]][rc[2]] # EMPTY})

GrowStep ==
    /\ call'.op = "drop_piece" =>
          Pieces(board') = Pieces(board) + (IF result'.placed THEN 1 ELSE 0)
    /\ call'.op = "reset" => Pieces(board') = 0
    /\ call'.op = "valid_moves" => Pieces(board') = Pieces(board)

Playable ==
    /\ Pieces(board) <= config.rows * config.cols
    /\ ~Ended(winner, is_draw) => ValidMoves(board, config.cols) # <<>>

GameTerminates ==
    /\ [][GrowStep]_vars
    /\ []Playable
    /\ []<>(Ended(winner, is_draw) \/ call.op = "reset")

\* A game played to the last cell: the board is full and the game is over.
GameTerminatesWitness ==
    /\ DropCalled
    /\ result.placed
    /\ Pieces(board) = config.rows * config.cols
    /\ config.rows * config.cols >= WinLength
    /\ Ended(winner, is_draw)

\* C25. Automated turns make progress: while the game runs and the side to
\* move is controlled by RandomAI (an agent that always returns a valid
\* column), an automated turn with the current token is waiting; the only
\* steps taken meanwhile are that turn, which places the agent's piece, a
\* click, which is ignored, or Start New Game; any automated turn whose
\* agent returned a valid column applied it; with the timer firing the
\* agent does not stay to move for ever, so a game between two such agents
\* ends; and once the game is over no automated turn is waiting.
AiDue ==
    /\ ~Ended(winner, is_draw)
    /\ Controller(current_player) = Some("RandomAI")

ProgressStep ==
    /\ AiDue =>
          \/ event'.handler = "_on_start_new_game"
          \/ event'.handler = "_on_human_move" /\ ~event'.dropped /\ UNCHANGED game
          \/ /\ event'.handler = "_do_ai_turn"
             /\ result'.placed
             /\ Pieces(board') = Pieces(board) + 1
             /\ \E ch \in chosen' : ch.agent = Some("RandomAI")
    /\ event'.handler = "_do_ai_turn" =>
          \A ch \in chosen' :
              ch.ret \cap ElemsOf(ValidMoves(board, config.cols)) # {} =>
                  /\ event'.dropped
                  /\ result'.placed
                  /\ \E r \in Rows : last_move' = Some(<<r, CHOOSE c \in ch.ret : TRUE>>)

Scheduled ==
    /\ AiDue => after = {turn_token}
    /\ Ended(winner, is_draw) => after = {}

AutomatedProgress ==
    /\ [][ProgressStep]_vars
    /\ []Scheduled
    /\ []<>(~AiDue)

\* A game between two RandomAI agents that has run to its end on a board
\* where a line fits; nothing is waiting.
AutomatedProgressWitness ==
    /\ p1_ai = Some("RandomAI")
    /\ p2_ai = Some("RandomAI")
    /\ event = Handled("_do_ai_turn", TRUE)
    /\ winner # 0
    /\ after = {}
====
